---- MODULE Spec2Model ----
(***************************************************************************)
(* Model of runtime/mercury_bootstrap.c: the bootstrap definitions of the  *)
(* type_ctor_info for std_util:type_info/0 and of its unify, index and     *)
(* compare entry points, the module initialisation function and            *)
(* call_engine.                                                            *)
(*                                                                         *)
(* Abstract machine registers hold machine words, modelled as integers.    *)
(* A type_info is the address of a cell; the cells live in TypeInfos.      *)
(* Code addresses are positions [entry, i]: statement i of an entry.       *)
(***************************************************************************)
EXTENDS Integers, Sequences, FiniteSets, TLC

(* How many times the model lets sys_init_unify_univ_module_bootstrap run. *)
MaxInits == 2

(***************************************************************************)
(* Comparison results and C truth values.                                  *)
(***************************************************************************)
COMPARE_EQUAL == 0
COMPARE_LESS == 1
COMPARE_GREATER == 2

C_TRUE == 1
C_FALSE == 0

(***************************************************************************)
(* The register file.  r1, r2 carry the arguments and r1 the result;       *)
(* succip is the continuation proceed() jumps to.                          *)
(***************************************************************************)
Regs == {"r1", "r2", "succip"}

(* The continuation the engine passes to an entry point it starts.         *)
EngineDone == 4096

(* What a C call may leave in a transient register's physical storage.     *)
ClobberVals == {57005}

(***************************************************************************)
(* Type descriptors (type_info cells) the program compares.  Names are     *)
(* strings, modelled as sequences of character codes.                      *)
(***************************************************************************)
TypeInfos ==
    [d \in 101..107 |->
        CASE d = 101 -> [arity |-> 0, moduleName |-> <<1>>, typeName |-> <<3, 1>>, args |-> <<>>]
          [] d = 102 -> [arity |-> 0, moduleName |-> <<1>>, typeName |-> <<3, 1>>, args |-> <<>>]
          [] d = 103 -> [arity |-> 0, moduleName |-> <<1>>, typeName |-> <<3, 2>>, args |-> <<>>]
          [] d = 104 -> [arity |-> 0, moduleName |-> <<0, 9>>, typeName |-> <<3>>, args |-> <<>>]
          [] d = 105 -> [arity |-> 1, moduleName |-> <<1>>, typeName |-> <<2>>, args |-> <<101>>]
          [] d = 106 -> [arity |-> 1, moduleName |-> <<1>>, typeName |-> <<2>>, args |-> <<103>>]
          [] d = 107 -> [arity |-> 1, moduleName |-> <<1>>, typeName |-> <<2>>, args |-> <<102>>]]

TypeInfoAddrs == DOMAIN TypeInfos

(***************************************************************************)
(* The Structural Comparator, MR_compare_type_info.                        *)
(***************************************************************************)
CompareInts(x, y) ==
    IF x < y THEN COMPARE_LESS
    ELSE IF x > y THEN COMPARE_GREATER
    ELSE COMPARE_EQUAL

RECURSIVE CompareStrings(_, _)
CompareStrings(s, t) ==
    IF s = <<>> /\ t = <<>> THEN COMPARE_EQUAL
    ELSE IF s = <<>> THEN COMPARE_LESS
    ELSE IF t = <<>> THEN COMPARE_GREATER
    ELSE IF Head(s) # Head(t) THEN CompareInts(Head(s), Head(t))
    ELSE CompareStrings(Tail(s), Tail(t))

RECURSIVE MR_compare_type_info(_, _)
RECURSIVE CompareArgs(_, _)
CompareArgs(xs, ys) ==
    IF xs = <<>> \/ ys = <<>> THEN CompareInts(Len(xs), Len(ys))
    ELSE LET c == MR_compare_type_info(Head(xs), Head(ys))
         IN  IF c # COMPARE_EQUAL THEN c ELSE CompareArgs(Tail(xs), Tail(ys))

MR_compare_type_info(t1, t2) ==
    IF t1 = t2 THEN COMPARE_EQUAL
    ELSE LET d1 == TypeInfos[t1]
             d2 == TypeInfos[t2]
             byArity  == CompareInts(d1.arity, d2.arity)
             byModule == CompareStrings(d1.moduleName, d2.moduleName)
             byName   == CompareStrings(d1.typeName, d2.typeName)
         IN  IF byArity # COMPARE_EQUAL THEN byArity
             ELSE IF byModule # COMPARE_EQUAL THEN byModule
             ELSE IF byName # COMPARE_EQUAL THEN byName
             ELSE CompareArgs(d1.args, d2.args)

(***************************************************************************)
(* Names of the entry points, and where their code starts.                 *)
(***************************************************************************)
UnifyEntry == "mercury____Unify___std_util__type_info_0_0_bootstrap"
IndexEntry == "mercury____Index___std_util__type_info_0_0_bootstrap"
CompareEntry == "mercury____Compare___std_util__type_info_0_0_bootstrap"

Idle == [entry |-> "idle", i |-> 0]
Crashed == [entry |-> "crashed", i |-> 0]
Label(entry) == [entry |-> entry, i |-> 1]

(***************************************************************************)
(* The statements of each entry point, in program order.                   *)
(***************************************************************************)
UnifyBodyWriteFirst == <<"save", "call", "write", "restore", "proceed">>
UnifyBody == <<"save", "call", "restore", "write", "proceed">>
IndexBody == <<"write", "proceed">>
CompareBody == <<"save", "call", "restore", "write", "proceed">>

Body(entry) ==
    CASE entry = UnifyEntry -> UnifyBody
      [] entry = IndexEntry -> IndexBody
      [] entry = CompareEntry -> CompareBody
      [] OTHER -> <<>>

(***************************************************************************)
(* The static type_ctor_info, field by field as its initializer gives it.  *)
(***************************************************************************)
IntegerField(n) == [ty |-> "Integer", i |-> n]
EntryField(e) == [ty |-> "Code", entry |-> e]
PointerField(sym) == [ty |-> "WordPtr", sym |-> sym]
string_const(str, n) == [ty |-> "String", s |-> str, len |-> n]

TypeCtorInfoWithoutRep ==
    << IntegerField(0),
       EntryField(UnifyEntry),
       EntryField(IndexEntry),
       EntryField(CompareEntry),
       PointerField("mercury_data_std_util__type_ctor_functors_type_info_0_bootstrap"),
       PointerField("mercury_data_std_util__type_ctor_layout_type_info_0_bootstrap"),
       string_const("std_util", 8),
       string_const("type_info", 9) >>

mercury_data_std_util__type_ctor_info_type_info_0 ==
    << IntegerField(0),
       EntryField(UnifyEntry),
       EntryField(IndexEntry),
       EntryField(CompareEntry),
       IntegerField(15),
       PointerField("mercury_data_std_util__type_ctor_functors_type_info_0_bootstrap"),
       PointerField("mercury_data_std_util__type_ctor_layout_type_info_0_bootstrap"),
       string_const("std_util", 8),
       string_const("type_info", 9) >>

VARIABLES
    type_ctor_info,  \* the type_ctor_info structure in static memory
    entry_table,     \* the global table of entry labels
    inits,           \* how often the module initialisation has run
    transient,       \* the registers this build keeps in call-clobbered storage
    reg,             \* the registers' physical storage
    fake_reg,        \* the save area of the registers
    comp,            \* the C local `comp' of the executing entry point
    pc,              \* the code position of the abstract machine
    inputs,          \* the two type_infos the program works on
    call,            \* history: the entry point last started and its arguments
    entry_regs,      \* history: the registers when that entry point was entered
    prev,            \* history: the call completed before that one, with its result
    steps,           \* history: the statements executed since the entry point was entered
    clobbered        \* history: the registers the comparator call overwrote

vars == << type_ctor_info, entry_table, inits, transient, reg, fake_reg, comp, pc,
           inputs, call, entry_regs, prev, steps, clobbered >>

machine == << reg, fake_reg, comp >>
statics == << type_ctor_info, entry_table, inits, transient, inputs >>
history == << call, entry_regs, prev >>

(***************************************************************************)
(* Register macros.                                                        *)
(***************************************************************************)
save_transient_registers(r, f, T) == [x \in Regs |-> IF x \in T THEN r[x] ELSE f[x]]
restore_transient_registers(r, f, T) == [x \in Regs |-> IF x \in T THEN f[x] ELSE r[x]]

(***************************************************************************)
(* The entry label table.                                                  *)
(***************************************************************************)
init_entry(table, name) ==
    IF \E e \in table : e.e_name = name THEN table
    ELSE table \cup {[e_name |-> name, e_addr |-> Label(name)]}

Installed(table, name) == \E e \in table : e.e_name = name
Lookup(table, name) == (CHOOSE e \in table : e.e_name = name).e_addr

ModuleInitWithoutCompare(table) ==
    init_entry(init_entry(table, UnifyEntry), IndexEntry)

(* BEGIN_MODULE(unify_univ_module_bootstrap) ... BEGIN_CODE *)
unify_univ_module_bootstrap(table) ==
    init_entry(init_entry(init_entry(table, UnifyEntry), IndexEntry), CompareEntry)

(***************************************************************************)
(* What each entry point writes to r1.                                     *)
(***************************************************************************)
UnifyResultRaw(c) == c
UnifyResultNegated(c) == IF c # COMPARE_EQUAL THEN C_TRUE ELSE C_FALSE
UnifyResult(c) == IF c = COMPARE_EQUAL THEN C_TRUE ELSE C_FALSE

IndexResultSignDropped == -(-1)
IndexResult == -1

CompareResultReversed(c) ==
    IF c = COMPARE_LESS THEN COMPARE_GREATER
    ELSE IF c = COMPARE_GREATER THEN COMPARE_LESS
    ELSE c
CompareResultBool(c) == IF c = COMPARE_EQUAL THEN C_TRUE ELSE C_FALSE
CompareResult(c) == c

(***************************************************************************)
(* Initial state: static data in place, nothing initialised or called yet. *)
(***************************************************************************)
NoCall == [entry |-> "none", a |-> 0, b |-> 0]

Init ==
    /\ type_ctor_info = mercury_data_std_util__type_ctor_info_type_info_0
    /\ entry_table = {}
    /\ inits = 0
    /\ transient \in SUBSET Regs
    /\ reg = [x \in Regs |-> 0]
    /\ fake_reg = [x \in Regs |-> 0]
    /\ comp = 0
    /\ pc = Idle
    /\ inputs \in TypeInfoAddrs \X TypeInfoAddrs
    /\ call = NoCall
    /\ entry_regs = [x \in Regs |-> 0]
    /\ prev = [entry |-> "none", a |-> 0, b |-> 0, res |-> 0]
    /\ steps = <<>>
    /\ clobbered = {}

(***************************************************************************)
(* sys_init_unify_univ_module_bootstrap                                    *)
(***************************************************************************)
sys_init_unify_univ_module_bootstrap ==
    /\ pc = Idle
    /\ inits < MaxInits
    /\ entry_table' = unify_univ_module_bootstrap(entry_table)
    /\ inits' = inits + 1
    /\ UNCHANGED << type_ctor_info, transient, inputs, machine, pc, history, steps, clobbered >>

(***************************************************************************)
(* call_engine(entry_point): generated code has loaded the arguments and   *)
(* enters the abstract machine at one of the descriptor's entry points.    *)
(***************************************************************************)
call_engine ==
    /\ pc = Idle
    /\ \E k \in 2..4, swap \in BOOLEAN, garbage \in {0, 2} :
         LET entry_point == type_ctor_info[k].entry
             a == IF swap THEN inputs[2] ELSE inputs[1]
             b == IF swap THEN inputs[1] ELSE inputs[2]
             regs == [x \in Regs |->
                        CASE x = "r1" -> a
                          [] x = "r2" -> b
                          [] x = "succip" -> EngineDone]
         IN  /\ Installed(entry_table, entry_point)
             /\ pc' = Lookup(entry_table, entry_point)
             /\ reg' = regs
             /\ comp' = garbage
             /\ call' = [entry |-> entry_point, a |-> a, b |-> b]
             /\ entry_regs' = regs
             /\ prev' = [entry |-> call.entry, a |-> call.a, b |-> call.b, res |-> reg["r1"]]
    /\ steps' = <<>>
    /\ clobbered' = {}
    /\ UNCHANGED << statics, fake_reg >>

(***************************************************************************)
(* The statements of the entry points.                                     *)
(***************************************************************************)
At(entry, stmt) ==
    /\ pc.entry = entry
    /\ pc.i \in 1..Len(Body(entry))
    /\ Body(entry)[pc.i] = stmt

Advance(stmt) ==
    /\ pc' = [pc EXCEPT !.i = pc.i + 1]
    /\ steps' = Append(steps, stmt)

StmtSave(entry) ==
    /\ At(entry, "save")
    /\ fake_reg' = save_transient_registers(reg, fake_reg, transient)
    /\ Advance("save")
    /\ UNCHANGED << statics, history, reg, comp, clobbered >>

(* The C call may overwrite the physical storage of any transient register. *)
StmtCall(entry) ==
    /\ At(entry, "call")
    /\ reg["r1"] \in TypeInfoAddrs
    /\ reg["r2"] \in TypeInfoAddrs
    /\ comp' = MR_compare_type_info(reg["r1"], reg["r2"])
    /\ \E S \in SUBSET transient, junk \in ClobberVals :
         /\ reg' = [x \in Regs |-> IF x \in S THEN junk ELSE reg[x]]
         /\ clobbered' = S
    /\ Advance("call")
    /\ UNCHANGED << statics, history, fake_reg >>

StmtRestore(entry) ==
    /\ At(entry, "restore")
    /\ reg' = restore_transient_registers(reg, fake_reg, transient)
    /\ Advance("restore")
    /\ UNCHANGED << statics, history, fake_reg, comp, clobbered >>

StmtWrite(entry, value) ==
    /\ At(entry, "write")
    /\ reg' = [reg EXCEPT !["r1"] = value]
    /\ Advance("write")
    /\ UNCHANGED << statics, history, fake_reg, comp, clobbered >>

StmtProceed(entry) ==
    /\ At(entry, "proceed")
    /\ pc' = IF reg["succip"] = EngineDone THEN Idle ELSE Crashed
    /\ steps' = Append(steps, "proceed")
    /\ UNCHANGED << statics, history, machine, clobbered >>

(* mercury____Unify___std_util__type_info_0_0_bootstrap *)
Unify_save ==        \* save_transient_registers();
    /\ pc.entry = UnifyEntry
    /\ StmtSave(UnifyEntry)

Unify_call ==        \* comp = MR_compare_type_info(r1, r2);
    /\ pc.entry = UnifyEntry
    /\ StmtCall(UnifyEntry)

Unify_restore_omitted ==
    /\ At(UnifyEntry, "restore")
    /\ Advance("restore")
    /\ UNCHANGED << statics, history, machine, clobbered >>

Unify_restore ==     \* restore_transient_registers();
    /\ pc.entry = UnifyEntry
    /\ StmtRestore(UnifyEntry)

Unify_write ==       \* r1 = (comp == COMPARE_EQUAL);
    /\ pc.entry = UnifyEntry
    /\ StmtWrite(UnifyEntry, UnifyResult(comp))

Unify_proceed ==     \* proceed();
    /\ pc.entry = UnifyEntry
    /\ StmtProceed(UnifyEntry)

(* mercury____Index___std_util__type_info_0_0_bootstrap *)
Index_write ==       \* r1 = -1;
    /\ pc.entry = IndexEntry
    /\ StmtWrite(IndexEntry, IndexResult)

Index_proceed ==     \* proceed();
    /\ pc.entry = IndexEntry
    /\ StmtProceed(IndexEntry)

(* mercury____Compare___std_util__type_info_0_0_bootstrap *)
Compare_save ==      \* save_transient_registers();
    /\ pc.entry = CompareEntry
    /\ StmtSave(CompareEntry)

Compare_call ==      \* comp = MR_compare_type_info(r1, r2);
    /\ pc.entry = CompareEntry
    /\ StmtCall(CompareEntry)

Compare_restore ==   \* restore_transient_registers();
    /\ pc.entry = CompareEntry
    /\ StmtRestore(CompareEntry)

Compare_write ==     \* r1 = comp;
    /\ pc.entry = CompareEntry
    /\ StmtWrite(CompareEntry, CompareResult(comp))

Compare_proceed ==   \* proceed();
    /\ pc.entry = CompareEntry
    /\ StmtProceed(CompareEntry)

Next ==
    \/ sys_init_unify_univ_module_bootstrap
    \/ call_engine
    \/ Unify_save
    \/ Unify_call
    \/ Unify_restore
    \/ Unify_write
    \/ Unify_proceed
    \/ Index_write
    \/ Index_proceed
    \/ Compare_save
    \/ Compare_call
    \/ Compare_restore
    \/ Compare_write
    \/ Compare_proceed

Spec == Init /\ [][Next]_vars

(***************************************************************************)
(* Properties.                                                             *)
(***************************************************************************)
Returned(entry) == pc = Idle /\ call.entry = entry

SameArgs == prev.a = call.a /\ prev.b = call.b
SwappedArgs == prev.a = call.b /\ prev.b = call.a

Canonical == <<"save", "call", "restore", "write", "proceed">>
IsPrefix(s, t) == Len(s) <= Len(t) /\ s = SubSeq(t, 1, Len(s))

(* C1: called one after the other with the same two type_infos, Unify     *)
(* leaves true in r1 exactly when Compare leaves COMPARE_EQUAL in r1, and  *)
(* leaves false otherwise.                                                 *)
C1_UnifyIffCompareEqual ==
    /\ (Returned(UnifyEntry) /\ prev.entry = CompareEntry /\ SameArgs)
         => /\ reg["r1"] \in {C_TRUE, C_FALSE}
            /\ reg["r1"] = C_TRUE <=> prev.res = COMPARE_EQUAL
    /\ (Returned(CompareEntry) /\ prev.entry = UnifyEntry /\ SameArgs)
         => /\ prev.res \in {C_TRUE, C_FALSE}
            /\ prev.res = C_TRUE <=> reg["r1"] = COMPARE_EQUAL

C1_Witness ==
    /\ Returned(UnifyEntry) /\ prev.entry = CompareEntry /\ SameArgs
    /\ call.a # call.b
    /\ reg["r1"] = C_TRUE
    /\ prev.res = COMPARE_EQUAL

(* C2: whatever the registers held before, Index executes only the write   *)
(* of -1 to r1 and proceed: r1 is -1 from the write on, and the comparator *)
(* is never called.                                                        *)
C2_IndexSentinel ==
    call.entry = IndexEntry =>
        /\ IsPrefix(steps, <<"write", "proceed">>)
        /\ \A k \in 1..Len(steps) : steps[k] # "call"
        /\ steps # <<>> => reg["r1"] = -1
        /\ pc = Idle => steps = <<"write", "proceed">>
        /\ pc # Crashed

C2_Witness ==
    /\ Returned(IndexEntry)
    /\ reg["r1"] = -1
    /\ entry_regs["r1"] \in TypeInfoAddrs
    /\ prev.entry = CompareEntry
    /\ prev.res = COMPARE_GREATER

(* C3: Compare leaves in r1 the comparator's result for (a, b), in that    *)
(* argument order, unchanged.                                              *)
C3_CompareResultIsComparators ==
    Returned(CompareEntry) =>
        /\ reg["r1"] = MR_compare_type_info(call.a, call.b)
        /\ reg["r1"] \in {COMPARE_LESS, COMPARE_EQUAL, COMPARE_GREATER}

C3_Witness ==
    /\ Returned(CompareEntry)
    /\ reg["r1"] = COMPARE_GREATER
    /\ MR_compare_type_info(call.b, call.a) = COMPARE_LESS

(* C4: when Unify or Compare has returned, every transient register other  *)
(* than r1 holds the value it held on entry, whatever the comparator call  *)
(* overwrote.                                                              *)
C4_TransientRegistersPreserved ==
    (pc = Idle /\ call.entry \in {UnifyEntry, CompareEntry}) =>
        \A x \in transient \ {"r1"} : reg[x] = entry_regs[x]

C4_Witness ==
    /\ Returned(UnifyEntry)
    /\ transient = Regs
    /\ clobbered = Regs
    /\ reg["r2"] = entry_regs["r2"]
    /\ reg["succip"] = entry_regs["succip"]

(* C5: with the same type_info in r1 and r2, Compare leaves COMPARE_EQUAL  *)
(* and Unify leaves true.                                                  *)
C5_Reflexive ==
    (pc = Idle /\ call.a = call.b) =>
        /\ call.entry = CompareEntry => reg["r1"] = COMPARE_EQUAL
        /\ call.entry = UnifyEntry => reg["r1"] = C_TRUE

C5_Witness ==
    /\ Returned(UnifyEntry)
    /\ call.a = call.b
    /\ reg["r1"] = C_TRUE
    /\ prev.entry = CompareEntry /\ SameArgs /\ prev.res = COMPARE_EQUAL

(* C6: Compare on (a, b) yields COMPARE_LESS exactly when Compare on       *)
(* (b, a) yields COMPARE_GREATER.                                          *)
C6_Antisymmetric ==
    (Returned(CompareEntry) /\ prev.entry = CompareEntry /\ SwappedArgs) =>
        /\ reg["r1"] = COMPARE_LESS <=> prev.res = COMPARE_GREATER
        /\ prev.res = COMPARE_LESS <=> reg["r1"] = COMPARE_GREATER

C6_Witness ==
    /\ Returned(CompareEntry) /\ prev.entry = CompareEntry /\ SwappedArgs
    /\ reg["r1"] = COMPARE_LESS
    /\ prev.res = COMPARE_GREATER

(* C8: once the module initialisation has run, however often, the entry    *)
(* table holds each of the three entry points exactly once, bound to its   *)
(* own code: the table the first run leaves.                               *)
RegisteredTable ==
    {[e_name |-> n, e_addr |-> Label(n)] : n \in {UnifyEntry, IndexEntry, CompareEntry}}

C9_EightFields ==
    /\ Len(type_ctor_info) = 8
    /\ type_ctor_info[1] = IntegerField(0)
    /\ type_ctor_info[2] = EntryField(UnifyEntry)
    /\ type_ctor_info[3] = EntryField(IndexEntry)
    /\ type_ctor_info[4] = EntryField(CompareEntry)
    /\ type_ctor_info[5].ty = "WordPtr"
    /\ type_ctor_info[6].ty = "WordPtr"
    /\ type_ctor_info[7].ty = "String" /\ type_ctor_info[7].s = "std_util"
    /\ type_ctor_info[8].ty = "String" /\ type_ctor_info[8].s = "type_info"

(* C9 amended: the descriptor has exactly nine fields: arity 0, the unify, *)
(* index and compare entries, the integer 15, the functors and layout      *)
(* references, module name "std_util" and type name "type_info", each      *)
(* string with its length; and it never changes.                           *)
C9_NineFields ==
    /\ Len(type_ctor_info) = 9
    /\ type_ctor_info[1] = IntegerField(0)
    /\ type_ctor_info[2] = EntryField(UnifyEntry)
    /\ type_ctor_info[3] = EntryField(IndexEntry)
    /\ type_ctor_info[4] = EntryField(CompareEntry)
    /\ type_ctor_info[5] = IntegerField(15)
    /\ type_ctor_info[6] = PointerField("mercury_data_std_util__type_ctor_functors_type_info_0_bootstrap")
    /\ type_ctor_info[7] = PointerField("mercury_data_std_util__type_ctor_layout_type_info_0_bootstrap")
    /\ type_ctor_info[8] = string_const("std_util", 8)
    /\ type_ctor_info[9] = string_const("type_info", 9)

C9_Witness ==
    /\ Len(type_ctor_info) = 9
    /\ type_ctor_info[5] = IntegerField(15)
    /\ Returned(type_ctor_info[4].entry)
    /\ prev.entry = type_ctor_info[2].entry

(* C10: Unify and Compare execute save, call, restore, write, proceed in   *)
(* this order, each once; a started call is never stuck and never jumps to *)
(* a lost continuation; on return r1 holds the value written after the     *)
(* restore.                                                                *)
C10_StatementOrder ==
    call.entry \in {UnifyEntry, CompareEntry} =>
        /\ IsPrefix(steps, Canonical)
        /\ pc # Crashed
        /\ pc # Idle => (pc.entry = call.entry /\ pc.i = Len(steps) + 1 /\ ENABLED Next)
        /\ pc = Idle =>
             /\ steps = Canonical
             /\ call.entry = UnifyEntry => reg["r1"] = UnifyResult(comp)
             /\ call.entry = CompareEntry => reg["r1"] = CompareResult(comp)

C10_Witness ==
    /\ Returned(CompareEntry)
    /\ steps = Canonical
    /\ "r1" \in clobbered
    /\ reg["r1"] = COMPARE_LESS

====
